---- MODULE Spec2Model ----
(***************************************************************************)
(* A model of app/models.py of the to-do list application: the validated   *)
(* setters of User, the password hash, the save/delete/from_dict methods   *)
(* of BaseModel over the relational store, the TodoList counts and the     *)
(* Todo state machine.                                                     *)
(*                                                                         *)
(* Strings are sequences of one-character strings, so that len() and the   *)
(* regular expressions are computed on the characters.  None is a          *)
(* sentinel of the same shape (a sequence) for the string attributes and   *)
(* NoneInt / "None" for the integer and boolean ones.                      *)
(*                                                                         *)
(* The session (db.session) is opened, committed or rolled back, and       *)
(* closed within one save()/delete() call: a call flushes the object it    *)
(* is called on.  The store declares the unique constraints of lines       *)
(* 55-56; it does not check the column widths or the foreign keys.         *)
(*                                                                         *)
(* The columns no operation here reads are left out (creator, created_at,  *)
(* member_since, last_seen, is_admin), and with them seen(),               *)
(* promote_to_admin() and the to_dict() projections.                       *)
(***************************************************************************)
EXTENDS Integers, Sequences, FiniteSets, TLC

VARIABLES
    umem,     \* the User objects of the client, by object reference
    utbl,     \* the rows of table user
    lmem,     \* the TodoList objects
    ltbl,     \* the rows of table todolist
    tmem,     \* the Todo objects
    ttbl,     \* the rows of table todo
    method,   \* the hash method generate_password_hash is built with
    race,     \* the two clients of a concurrent registration
    last      \* the last call: its operation, object, argument and outcome

vars == <<umem, utbl, lmem, ltbl, tmem, ttbl, method, race, last>>

(***************************************************************************)
(* Bounds of the model.                                                    *)
(***************************************************************************)
NumUsers == 2       \* User objects alive at a time
NumLists == 2       \* TodoList objects alive at a time
NumTodos == 2       \* Todo objects alive at a time
MaxTime == 2        \* the values datetime.utcnow() takes

(***************************************************************************)
(* Program constants.                                                      *)
(***************************************************************************)
UsernameMax == 64
EmailMax == 64
HashMax == 128
TitleMax == 128
NoneInt == 0

None == <<"None">>

Fill(c, n) == [i \in 1..n |-> c]

Whitespace == {" ", "\t", "\n"}

UserObjs == 1..NumUsers
ListObjs == 1..NumLists
TodoObjs == 1..NumTodos
Times == 1..MaxTime

\* bool(x) of a string or None
Truthy(x) == x # None /\ Len(x) > 0

\* check_length(attribute, length)
check_length(attribute, length) ==
    Truthy(attribute) /\ Len(attribute) <= length

\* the end positions '$' accepts: the end of the string, and the place
\* before a newline that ends the string
DollarEnds(s) ==
    {Len(s)} \cup {k \in {Len(s) - 1} : Len(s) > 0 /\ s[Len(s)] = "\n"}

\* USERNAME_REGEX.match(s), r'^\S+$'
USERNAME_REGEX_match(s) ==
    \E n \in DollarEnds(s) :
        /\ n >= 1
        /\ \A i \in 1..n : s[i] \notin Whitespace

\* EMAIL_REGEX.match(s), r'^\S+@\S+\.\S+$'
EMAIL_REGEX_match(s) ==
    \E n \in DollarEnds(s) :
        /\ \A i \in 1..n : s[i] \notin Whitespace
        /\ \E i \in 2..n : \E j \in (i + 2)..(n - 1) :
              s[i] = "@" /\ s[j] = "."

\* the test of the name setter; the regular expression is matched only
\* when the length is valid ('or' short-circuits)
ValidName(username) ==
    /\ check_length(username, UsernameMax)
    /\ USERNAME_REGEX_match(username)

ValidEmail(email) ==
    /\ check_length(email, EmailMax)
    /\ EMAIL_REGEX_match(email)

(***************************************************************************)
(* The store: table user.                                                  *)
(***************************************************************************)
NoUser == [state |-> "none", id |-> NoneInt, username |-> None,
           email |-> None, password_hash |-> None]

NoList == [state |-> "none", id |-> NoneInt, title |-> None]

NoTodo == [state |-> "none", id |-> NoneInt, description |-> None,
           todolist_id |-> NoneInt, is_finished |-> "None",
           finished_at |-> NoneInt]

UserRow(u) == [id |-> u.id, username |-> u.username, email |-> u.email,
               password_hash |-> u.password_hash]

Max(S) == CHOOSE m \in S : \A x \in S : x <= m

\* the primary key of a row inserted by one of two concurrent clients
NextId(tbl) == Max({r.id : r \in tbl} \cup {0}) + 1

\* the primary key of the row inserted for the object held in reference o:
\* the store hands out a key no row of the table has, and the model takes
\* the number of the reference, which no other row has
KeyOf(o) == o

\* the client holds its objects in the references 1, 2, ...: a new
\* object takes the first free one
FirstFree(mem, o) ==
    /\ mem[o].state = "none"
    /\ \A p \in DOMAIN mem : p < o => mem[p].state # "none"

UniqueNever(tbl, row) == FALSE

\* unique=True of username and of email: a NULL conflicts with nothing
UniqueViolation(tbl, row) ==
    \E r \in tbl :
        /\ r.id # row.id
        /\ \/ row.username # None /\ r.username = row.username
           \/ row.email # None /\ r.email = row.email

RowOf(tbl, id) == CHOOSE r \in tbl : r.id = id

UserSaveNoRollback(u, tbl, key) ==
    IF u.state = "transient"
    THEN LET row == UserRow([u EXCEPT !.id = key])
         IN  [obj |-> [u EXCEPT !.state = "persistent", !.id = row.id],
              tbl |-> tbl \cup {row}, raised |-> UniqueViolation(tbl, row)]
    ELSE [obj |-> u,
          tbl |-> (tbl \ {RowOf(tbl, u.id)}) \cup {UserRow(u)},
          raised |-> UniqueViolation(tbl, UserRow(u))]

\* db.session.add(self); self.__commit() of a User: the object and the
\* table afterwards.  An IntegrityError is rolled back and swallowed: a
\* new object stays out of the store, a stored one is read again from its
\* row.
UserSave(u, tbl, key) ==
    IF u.state = "transient"
    THEN LET row == UserRow([u EXCEPT !.id = key])
         IN  IF UniqueViolation(tbl, row)
             THEN [obj |-> u, tbl |-> tbl, raised |-> FALSE]
             ELSE [obj |-> [u EXCEPT !.state = "persistent", !.id = row.id],
                   tbl |-> tbl \cup {row}, raised |-> FALSE]
    ELSE LET old == RowOf(tbl, u.id)
         IN  IF UniqueViolation(tbl, UserRow(u))
             THEN [obj |-> [u EXCEPT !.username = old.username,
                                     !.email = old.email,
                                     !.password_hash = old.password_hash],
                   tbl |-> tbl, raised |-> FALSE]
             ELSE [obj |-> u, tbl |-> (tbl \ {old}) \cup {UserRow(u)},
                   raised |-> FALSE]

\* User(**kwargs): each keyword is assigned with setattr, so 'username'
\* and 'email' set the columns and 'name' and 'emailaddress' go through
\* the validating setters.  ok is FALSE when a setter raises.
UserCtor(uk, uv, ek, ev) ==
    [ok |-> /\ (uk = "name" => ValidName(uv))
            /\ (ek = "emailaddress" => ValidEmail(ev)),
     obj |-> [NoUser EXCEPT !.state = "transient",
                            !.username = IF uk = "none" THEN None ELSE uv,
                            !.email = IF ek = "none" THEN None ELSE ev]]

Outcome(raised) == IF raised THEN "raised" ELSE "ok"

Call(op, obj, arg, raised) ==
    [op |-> op, obj |-> obj, arg |-> arg, outcome |-> Outcome(raised)]

UNCHANGED_lists == UNCHANGED <<lmem, ltbl, tmem, ttbl>>

\* u = User(**kwargs)
NewUser(o, uk, uv, ek, ev) ==
    /\ FirstFree(umem, o)
    /\ LET c == UserCtor(uk, uv, ek, ev)
       IN  /\ umem' = IF c.ok THEN [umem EXCEPT ![o] = c.obj] ELSE umem
           /\ last' = Call("User", o, uv, ~c.ok)
    /\ UNCHANGED <<utbl, method, race>>
    /\ UNCHANGED_lists

\* User.from_dict(model_dict): cls(**model_dict).save()
UserFromDict(o, uk, uv, ek, ev) ==
    /\ FirstFree(umem, o)
    /\ LET c == UserCtor(uk, uv, ek, ev)
           s == UserSave(c.obj, utbl, KeyOf(o))
       IN  IF c.ok
           THEN /\ umem' = [umem EXCEPT ![o] = s.obj]
                /\ utbl' = s.tbl
                /\ last' = Call("from_dict", o, uv, s.raised)
           ELSE /\ UNCHANGED <<umem, utbl>>
                /\ last' = Call("from_dict", o, uv, TRUE)
    /\ UNCHANGED <<method, race>>
    /\ UNCHANGED_lists

\* u.name = username
SetName(o, username) ==
    /\ umem[o].state # "none"
    /\ IF ValidName(username)
       THEN /\ umem' = [umem EXCEPT ![o].username = username]
            /\ last' = Call("name", o, username, FALSE)
       ELSE /\ umem' = umem
            /\ last' = Call("name", o, username, TRUE)
    /\ UNCHANGED <<utbl, method, race>>
    /\ UNCHANGED_lists

\* u.emailaddress = email
SetEmail(o, email) ==
    /\ umem[o].state # "none"
    /\ IF ValidEmail(email)
       THEN /\ umem' = [umem EXCEPT ![o].email = email]
            /\ last' = Call("emailaddress", o, email, FALSE)
       ELSE /\ umem' = umem
            /\ last' = Call("emailaddress", o, email, TRUE)
    /\ UNCHANGED <<utbl, method, race>>
    /\ UNCHANGED_lists

\* u.save()
SaveUser(o) ==
    /\ umem[o].state # "none"
    /\ LET s == UserSave(umem[o], utbl, KeyOf(o))
       IN  /\ umem' = [umem EXCEPT ![o] = s.obj]
           /\ utbl' = s.tbl
           /\ last' = Call("save", o, None, s.raised)
    /\ UNCHANGED <<method, race>>
    /\ UNCHANGED_lists

\* u.delete(): db.session.delete raises for an object that is not in the
\* store; the reference to a deleted object is dropped
DeleteUser(o) ==
    /\ umem[o].state # "none"
    /\ IF umem[o].state = "persistent"
       THEN /\ utbl' = utbl \ {RowOf(utbl, umem[o].id)}
            /\ umem' = [umem EXCEPT ![o] = NoUser]
            /\ last' = Call("delete", o, None, FALSE)
       ELSE /\ UNCHANGED <<umem, utbl>>
            /\ last' = Call("delete", o, None, TRUE)
    /\ UNCHANGED <<method, race>>
    /\ UNCHANGED_lists

(***************************************************************************)
(* The values the clients pass.                                            *)
(***************************************************************************)
NameA == <<"a">>
NameB == <<"b">>
MailA == <<"a", "@", "b", ".", "c">>
MailB == <<"b", "@", "b", ".", "c">>
\* keyword values of the constructor and of from_dict
RawNames == {None, <<>>, NameA}
RawMails == {None, MailA}
\* values assigned through the setters of a stored or new User
FewNames == {<<>>, NameB}
FewMails == {<<>>, MailA}
\* values assigned to u.name: empty, plain, with whitespace inside, before
\* and after, and at the length limit
NameInputs == {None, <<>>, NameA, NameB, <<"a", "\n">>, <<"a", " ">>,
               <<" ", "a">>, <<"a", "\t", "b">>, <<"\n">>,
               <<"a", "\n", "\n">>,
               Fill("a", UsernameMax), Fill("a", UsernameMax + 1),
               Fill("a", UsernameMax - 1) \o <<"\n">>,
               Fill("a", UsernameMax) \o <<"\n">>}
MailInputs == {None, <<>>, MailA, MailB, <<"a", "@", "b">>,
               <<"@", "b", ".", "c">>, <<"a", " ", "@", "b", ".", "c">>,
               MailA \o <<"\n">>}

InitOthers ==
    /\ lmem = [o \in ListObjs |-> NoList]
    /\ ltbl = {}
    /\ tmem = [o \in TodoObjs |-> NoTodo]
    /\ ttbl = {}
    /\ method = "pbkdf2"
    /\ race = 0

InitUser ==
    /\ umem = [o \in UserObjs |-> NoUser]
    /\ utbl = {}
    /\ last = Call("start", 0, None, FALSE)
    /\ InitOthers

NextUser ==
    \/ \E o \in UserObjs, uv \in RawNames, ev \in RawMails :
           NewUser(o, "username", uv, "email", ev)
    \/ \E o \in UserObjs, uv \in RawNames, ev \in RawMails :
           UserFromDict(o, "username", uv, "email", ev)
    \/ \E o \in UserObjs, uv \in FewNames : SetName(o, uv)
    \/ \E o \in UserObjs, ev \in FewMails : SetEmail(o, ev)
    \/ \E o \in UserObjs : SaveUser(o)
    \/ \E o \in UserObjs : DeleteUser(o)

SpecUser == InitUser /\ [][NextUser]_vars

(***************************************************************************)
(* C1: when a new User is saved (by save() or from_dict) whose username    *)
(* is the username of a stored row, the call returns without raising, the  *)
(* new User is not stored and the table is unchanged: one row has that     *)
(* username, the row that had it before.                                   *)
(***************************************************************************)
C1_DuplicateSaveRejected ==
    [][\A o \in UserObjs :
          LET name == umem'[o].username
          IN  (/\ last'.op \in {"save", "from_dict"}
               /\ last'.obj = o
               /\ umem[o].state # "persistent"
               /\ name # None
               /\ \E r \in utbl : r.username = name)
              => /\ last'.outcome = "ok"
                 /\ umem'[o].state = "transient"
                 /\ utbl' = utbl
                 /\ Cardinality({r \in utbl' : r.username = name}) = 1]_vars

\* a save of a new User with a taken username has returned
C1_Witness ==
    /\ last.op = "save"
    /\ last.outcome = "ok"
    /\ umem[last.obj].state = "transient"
    /\ umem[last.obj].username # None
    /\ \E r \in utbl : r.username = umem[last.obj].username
    /\ Cardinality(utbl) = 1

(***************************************************************************)
(* C5: every stored User has a non-empty username and a non-empty email,   *)
(* and no two stored Users share a username or share an email.             *)
(***************************************************************************)
C5_StoredUsersValidAndUnique ==
    \A r \in utbl :
        /\ Truthy(r.username)
        /\ Truthy(r.email)
        /\ \A q \in utbl :
              q # r => q.username # r.username /\ q.email # r.email

(***************************************************************************)
(* Assignments to u.name of one User, with the values at the edges of the  *)
(* validation.                                                             *)
(***************************************************************************)
NextName ==
    \/ \E uv \in RawNames : NewUser(1, "username", uv, "none", None)
    \/ \E uv \in NameInputs : NewUser(1, "name", uv, "none", None)
    \/ \E uv \in NameInputs : SetName(1, uv)
    \/ SaveUser(1)
    \/ DeleteUser(1)

SpecName == InitUser /\ [][NextName]_vars

HasWhitespace(s) == \E i \in 1..Len(s) : s[i] \in Whitespace

(***************************************************************************)
(* C4: assigning a username that is empty, longer than 64 characters or    *)
(* contains whitespace raises, the username keeps its value and the store  *)
(* is not written; assigning any other username sets it to that value.     *)
(***************************************************************************)
C4_NameSetterValidates ==
    [][\A o \in UserObjs :
          (last'.op = "name" /\ last'.obj = o)
          => LET s == last'.arg
             IN  /\ utbl' = utbl
                 /\ IF \/ ~Truthy(s)
                       \/ Len(s) > UsernameMax
                       \/ HasWhitespace(s)
                    THEN /\ last'.outcome = "raised"
                         /\ umem'[o].username = umem[o].username
                    ELSE /\ last'.outcome = "ok"
                         /\ umem'[o].username = s]_vars

(***************************************************************************)
(* Credentials.  generate_password_hash(password) returns the string       *)
(* method$salt$digest with a fresh salt; check_password_hash splits the    *)
(* stored string at the first two '$' and compares the digest of the       *)
(* candidate under the stored method and salt.  The digest is a one-to-one *)
(* encoding of (salt, password) of the method's digest length.             *)
(***************************************************************************)
SaltLen == 16
Methods == {"pbkdf2", "scrypt"}
PrefixOf(m) ==
    IF m = "pbkdf2"
    THEN <<"p", "b", "k", "d", "f", "2", ":", "s", "h", "a", "2", "5", "6",
           ":", "2", "6", "0", "0", "0", "0">>
    ELSE <<"s", "c", "r", "y", "p", "t", ":", "3", "2", "7", "6", "8", ":",
           "8", ":", "1">>
DigestLen(m) == IF m = "pbkdf2" THEN 64 ELSE 128
Salts == {Fill("s", SaltLen), Fill("t", SaltLen)}
Hex(c) ==
    IF c = "a" THEN "1" ELSE IF c = "b" THEN "2"
    ELSE IF c = "s" THEN "3" ELSE "4"

Digest(prefix, salt, password) ==
    LET n == IF prefix = PrefixOf("pbkdf2") THEN DigestLen("pbkdf2")
             ELSE DigestLen("scrypt")
    IN  <<Hex(salt[1])>> \o [i \in 1..Len(password) |-> Hex(password[i])]
           \o <<"f">> \o Fill("0", n - Len(password) - 2)

generate_plaintext(password, salt, m) == password

generate_password_hash(password, salt, m) ==
    PrefixOf(m) \o <<"$">> \o salt \o <<"$">>
        \o Digest(PrefixOf(m), salt, password)

Min(S) == CHOOSE m \in S : \A x \in S : m <= x

check_password_hash(pwhash, password) ==
    LET dollars == {i \in 1..Len(pwhash) : pwhash[i] = "$"}
    IN  IF Cardinality(dollars) < 2
        THEN FALSE
        ELSE LET d1 == Min(dollars)
                 d2 == Min(dollars \ {d1})
                 prefix == SubSeq(pwhash, 1, d1 - 1)
                 salt == SubSeq(pwhash, d1 + 1, d2 - 1)
                 hashval == SubSeq(pwhash, d2 + 1, Len(pwhash))
             IN  /\ Len(salt) > 0
                 /\ Digest(prefix, salt, password) = hashval

\* u.password = password
SetPassword(o, password, salt) ==
    /\ umem[o].state # "none"
    /\ IF ~Truthy(password)
       THEN /\ umem' = umem
            /\ last' = Call("password", o, password, TRUE)
       ELSE LET hashed_password ==
                    generate_password_hash(password, salt, method)
            IN  IF ~check_length(hashed_password, HashMax)
                THEN /\ umem' = umem
                     /\ last' = Call("password", o, password, TRUE)
                ELSE /\ umem' = [umem EXCEPT
                                    ![o].password_hash = hashed_password]
                     /\ last' = Call("password", o, password, FALSE)
    /\ UNCHANGED <<utbl, method, race>>
    /\ UNCHANGED_lists

\* u.verify_password(password); it raises for a User that has no hash
VerifyPassword(o, password) ==
    /\ umem[o].state # "none"
    /\ last' = [op |-> "verify_password", obj |-> o, arg |-> password,
                outcome |->
                    IF umem[o].password_hash = None THEN "raised"
                    ELSE IF check_password_hash(umem[o].password_hash,
                                                password)
                         THEN "True" ELSE "False"]
    /\ UNCHANGED <<umem, utbl, method, race>>
    /\ UNCHANGED_lists

Passwords == {None, <<>>, <<"a">>, <<"b">>, <<"a", "b">>}
Candidates == Passwords \ {None}

InitCred ==
    /\ umem = [o \in UserObjs |-> NoUser]
    /\ utbl = {}
    /\ last = Call("start", 0, None, FALSE)
    /\ lmem = [o \in ListObjs |-> NoList]
    /\ ltbl = {}
    /\ tmem = [o \in TodoObjs |-> NoTodo]
    /\ ttbl = {}
    /\ method \in Methods
    /\ race = 0

NextCred ==
    \/ NewUser(1, "username", NameA, "email", MailA)
    \/ \E pw \in Passwords, salt \in Salts : SetPassword(1, pw, salt)
    \/ \E pw \in Candidates : VerifyPassword(1, pw)
    \/ SaveUser(1)
    \/ DeleteUser(1)

SpecCred == InitCred /\ [][NextCred]_vars

(***************************************************************************)
(* C6: setting an empty password raises and leaves password_hash as it     *)
(* was; after a non-empty password p is set, the stored hash is not p and  *)
(* check_password_hash accepts a candidate exactly when it is p;           *)
(* verify_password returns that answer and does not raise.                 *)
(***************************************************************************)
C6_PasswordHashedAndVerified ==
    [][\A o \in UserObjs :
          /\ (last'.op = "password" /\ last'.obj = o)
             => LET p == last'.arg
                    h == umem'[o].password_hash
                IN  /\ ~Truthy(p) => /\ last'.outcome = "raised"
                                     /\ h = umem[o].password_hash
                    /\ last'.outcome = "raised" => h = umem[o].password_hash
                    /\ last'.outcome = "ok"
                       => /\ h # p
                          /\ \A q \in Candidates :
                                check_password_hash(h, q) <=> (q = p)
          /\ (/\ last'.op = "verify_password"
              /\ last'.obj = o
              /\ umem[o].password_hash # None)
             => /\ last'.outcome =
                      IF check_password_hash(umem[o].password_hash,
                                             last'.arg)
                      THEN "True" ELSE "False"
                /\ umem' = umem]_vars

\* a stored hash has accepted a candidate and a stored hash has been kept
\* by the assignment of an empty password
C6_Witness ==
    /\ last.op = "verify_password"
    /\ last.outcome = "True"
    /\ umem[last.obj].state = "persistent"
    /\ RowOf(utbl, umem[last.obj].id).password_hash
          = umem[last.obj].password_hash

(***************************************************************************)
(* TodoList and Todo.                                                      *)
(***************************************************************************)
Untitled == <<"u", "n", "t", "i", "t", "l", "e", "d">>

\* TodoList.is_valid_title(list_title)
is_valid_title(list_title) == check_length(list_title, TitleMax)

\* TodoList.__init__: self.title = title or 'untitled'
ListCtorValidated(title) ==
    [NoList EXCEPT !.state = "transient",
                   !.title = IF is_valid_title(title) THEN title
                             ELSE Untitled]

ListCtor(title) ==
    [NoList EXCEPT !.state = "transient",
                   !.title = IF Truthy(title) THEN title ELSE Untitled]

ListRow(l) == [id |-> l.id, title |-> l.title]

\* l = TodoList(title)
NewList(o, title) ==
    /\ FirstFree(lmem, o)
    /\ lmem' = [lmem EXCEPT ![o] = ListCtor(title)]
    /\ last' = Call("TodoList", o, title, FALSE)
    /\ UNCHANGED <<umem, utbl, ltbl, tmem, ttbl, method, race>>

\* db.session.add(self); self.__commit() of a TodoList: no constraint of
\* table todolist can fail
ListSave(l, tbl, key) ==
    IF l.state = "transient"
    THEN LET n == [l EXCEPT !.state = "persistent", !.id = key]
         IN  [obj |-> n, tbl |-> tbl \cup {ListRow(n)}]
    ELSE [obj |-> l, tbl |-> (tbl \ {RowOf(tbl, l.id)}) \cup {ListRow(l)}]

\* l.save()
SaveList(o) ==
    /\ lmem[o].state # "none"
    /\ LET s == ListSave(lmem[o], ltbl, KeyOf(o))
       IN  /\ lmem' = [lmem EXCEPT ![o] = s.obj]
           /\ ltbl' = s.tbl
    /\ last' = Call("TodoList.save", o, None, FALSE)
    /\ UNCHANGED <<umem, utbl, tmem, ttbl, method, race>>

\* l.change_title(new_title)
ChangeTitle(o, new_title) ==
    /\ lmem[o].state # "none"
    /\ LET s == ListSave([lmem[o] EXCEPT !.title = new_title], ltbl,
                          KeyOf(o))
       IN  /\ lmem' = [lmem EXCEPT ![o] = s.obj]
           /\ ltbl' = s.tbl
    /\ last' = Call("change_title", o, new_title, FALSE)
    /\ UNCHANGED <<umem, utbl, tmem, ttbl, method, race>>

\* the rows of table todo after the row lid of todolist is deleted: the
\* relationship 'todos' has no delete cascade, so the rows stay and their
\* todolist_id is set to NULL
ChildrenCascade(rows, lid) == {r \in rows : r.todolist_id # lid}

ChildrenOrphaned(rows, lid) ==
    {IF r.todolist_id = lid THEN [r EXCEPT !.todolist_id = NoneInt] ELSE r :
        r \in rows}

\* a stored Todo object is read again from its row after a commit
TodoRefresh(t, rows) ==
    IF t.state = "persistent" /\ \E r \in rows : r.id = t.id
    THEN LET r == RowOf(rows, t.id)
         IN  [t EXCEPT !.description = r.description,
                       !.todolist_id = r.todolist_id,
                       !.is_finished = r.is_finished,
                       !.finished_at = r.finished_at]
    ELSE IF t.state = "persistent" THEN NoTodo ELSE t

\* l.delete()
DeleteList(o) ==
    /\ lmem[o].state # "none"
    /\ IF lmem[o].state = "persistent"
       THEN /\ ltbl' = ltbl \ {RowOf(ltbl, lmem[o].id)}
            /\ ttbl' = ChildrenOrphaned(ttbl, lmem[o].id)
            /\ tmem' = [t \in TodoObjs |-> TodoRefresh(tmem[t], ttbl')]
            /\ lmem' = [lmem EXCEPT ![o] = NoList]
            /\ last' = Call("TodoList.delete", o, None, FALSE)
       ELSE /\ UNCHANGED <<lmem, ltbl, tmem, ttbl>>
            /\ last' = Call("TodoList.delete", o, None, TRUE)
    /\ UNCHANGED <<umem, utbl, method, race>>

\* l.count_todos(), l.count_finished(), l.count_open(): the rows of todo
\* whose todolist_id is the list's primary key; an unsaved list has none
Todos(l, rows) ==
    {r \in rows : l.id # NoneInt /\ r.todolist_id = l.id}

count_todos(l, rows) == Cardinality(Todos(l, rows))

count_finished(l, rows) ==
    Cardinality({r \in Todos(l, rows) : r.is_finished = "True"})

count_open(l, rows) ==
    Cardinality({r \in Todos(l, rows) : r.is_finished = "False"})

\* Todo.__init__(description, todolist_id): is_finished and finished_at
\* are not assigned
TodoCtor(description, todolist_id) ==
    [NoTodo EXCEPT !.state = "transient", !.description = description,
                   !.todolist_id = todolist_id]

\* the column defaults of an INSERT: is_finished is False when not set
TodoInsertNoDefaults(t) == t

TodoInsertDefaults(t) ==
    IF t.is_finished = "None" THEN [t EXCEPT !.is_finished = "False"] ELSE t

TodoRow(t) == [id |-> t.id, description |-> t.description,
               todolist_id |-> t.todolist_id, is_finished |-> t.is_finished,
               finished_at |-> t.finished_at]

\* db.session.add(self); self.__commit() of a Todo
TodoSave(t, tbl, key) ==
    IF t.state = "transient"
    THEN LET n == TodoInsertDefaults(
                      [t EXCEPT !.state = "persistent", !.id = key])
         IN  [obj |-> n, tbl |-> tbl \cup {TodoRow(n)}]
    ELSE [obj |-> t, tbl |-> (tbl \ {RowOf(tbl, t.id)}) \cup {TodoRow(t)}]

\* t.status
status(t) == IF t.is_finished = "True" THEN "finished" ELSE "open"

\* t = Todo(description, todolist_id)
NewTodo(o, description, todolist_id) ==
    /\ FirstFree(tmem, o)
    /\ tmem' = [tmem EXCEPT ![o] = TodoCtor(description, todolist_id)]
    /\ last' = Call("Todo", o, None, FALSE)
    /\ UNCHANGED <<umem, utbl, lmem, ltbl, ttbl, method, race>>

\* the call saves t in place of object o; the record of the call keeps the
\* status the Todo had when it was called
TodoStore(o, t, op) ==
    /\ LET s == TodoSave(t, ttbl, KeyOf(o))
       IN  /\ tmem' = [tmem EXCEPT ![o] = s.obj]
           /\ ttbl' = s.tbl
    /\ last' = Call(op, o, <<status(tmem[o])>>, FALSE)
    /\ UNCHANGED <<umem, utbl, lmem, ltbl, method, race>>

\* t.save()
SaveTodo(o) ==
    /\ tmem[o].state # "none"
    /\ TodoStore(o, tmem[o], "Todo.save")

\* the assignments of t.finished() and of t.reopen()
FinishedNoTimestamp(t, now) == [t EXCEPT !.is_finished = "True"]

FinishedAssign(t, now) ==
    [t EXCEPT !.is_finished = "True", !.finished_at = now]

ReopenKeepsTimestamp(t) == [t EXCEPT !.is_finished = "False"]

ReopenAssign(t) ==
    [t EXCEPT !.is_finished = "False", !.finished_at = NoneInt]

\* t.finished(), with now the value of datetime.utcnow()
Finished(o, now) ==
    /\ tmem[o].state # "none"
    /\ TodoStore(o, FinishedAssign(tmem[o], now), "finished")

\* t.reopen()
Reopen(o) ==
    /\ tmem[o].state # "none"
    /\ TodoStore(o, ReopenAssign(tmem[o]), "reopen")

\* t.delete()
DeleteTodo(o) ==
    /\ tmem[o].state # "none"
    /\ IF tmem[o].state = "persistent"
       THEN /\ ttbl' = ttbl \ {RowOf(ttbl, tmem[o].id)}
            /\ tmem' = [tmem EXCEPT ![o] = NoTodo]
            /\ last' = Call("Todo.delete", o, None, FALSE)
       ELSE /\ UNCHANGED <<tmem, ttbl>>
            /\ last' = Call("Todo.delete", o, None, TRUE)
    /\ UNCHANGED <<umem, utbl, lmem, ltbl, method, race>>

DescA == <<"m", "i", "l", "k">>
DescB == <<"t", "e", "a">>
Descriptions == {DescA, DescB}
TitleA == <<"h", "o", "m", "e">>
Titles == {None, <<>>, TitleA, Fill("x", TitleMax), Fill("x", TitleMax + 1)}

InitTodo ==
    /\ InitUser

\* the calls on Todos, the Todos of one list
NextTodo ==
    \/ \E o \in TodoObjs, d \in Descriptions : NewTodo(o, d, 1)
    \/ \E o \in TodoObjs : SaveTodo(o)
    \/ \E o \in TodoObjs, now \in Times : Finished(o, now)
    \/ \E o \in TodoObjs : Reopen(o)
    \/ \E o \in TodoObjs : DeleteTodo(o)

SpecTodo == InitTodo /\ [][NextTodo]_vars

\* the calls on TodoLists and on their Todos, at one instant
NextCount ==
    \/ \E o \in ListObjs : NewList(o, None)
    \/ \E o \in ListObjs : SaveList(o)
    \/ \E o \in ListObjs : DeleteList(o)
    \/ \E o \in TodoObjs, lid \in 1..NumLists : NewTodo(o, DescA, lid)
    \/ \E o \in TodoObjs : SaveTodo(o)
    \/ \E o \in TodoObjs : Finished(o, 1)
    \/ \E o \in TodoObjs : Reopen(o)
    \/ \E o \in TodoObjs : DeleteTodo(o)

SpecCount == InitTodo /\ [][NextCount]_vars

NextList ==
    \/ \E o \in ListObjs, t \in Titles : NewList(o, t)
    \/ \E o \in ListObjs : SaveList(o)
    \/ \E o \in ListObjs, t \in Titles : ChangeTitle(o, t)
    \/ \E o \in ListObjs : DeleteList(o)

SpecList == InitTodo /\ [][NextList]_vars

(***************************************************************************)
(* C2: a Todo, in memory and in the store, has finished_at set exactly     *)
(* when is_finished is true.                                               *)
(***************************************************************************)
C2_FinishedAtIffFinished ==
    /\ \A o \in TodoObjs :
          tmem[o].state # "none"
          => (tmem[o].finished_at # NoneInt <=> tmem[o].is_finished = "True")
    /\ \A r \in ttbl : r.finished_at # NoneInt <=> r.is_finished = "True"

\* a finished Todo has been reopened and stored
C2_Witness ==
    /\ last.op = "reopen"
    /\ last.arg = <<"finished">>
    /\ tmem[last.obj].finished_at = NoneInt
    /\ TodoRow(tmem[last.obj]) \in ttbl

(***************************************************************************)
(* C3: for a stored TodoList that N stored Todos reference, K of them      *)
(* finished, count_todos() is N, count_finished() is K and count_open()    *)
(* is N - K.                                                               *)
(***************************************************************************)
TodosOf(l) ==
    {o \in TodoObjs : /\ tmem[o].state = "persistent"
                      /\ tmem[o].todolist_id = l.id}

C3_Counts ==
    \A o \in ListObjs :
        lmem[o].state = "persistent"
        => LET N == Cardinality(TodosOf(lmem[o]))
               K == Cardinality({t \in TodosOf(lmem[o]) :
                                    tmem[t].is_finished = "True"})
           IN  /\ count_todos(lmem[o], ttbl) = N
               /\ count_finished(lmem[o], ttbl) = K
               /\ count_open(lmem[o], ttbl) = N - K

\* a list with an open and a finished Todo
C3_Witness ==
    \E o \in ListObjs :
        /\ lmem[o].state = "persistent"
        /\ count_todos(lmem[o], ttbl) = 2
        /\ count_finished(lmem[o], ttbl) = 1
        /\ count_open(lmem[o], ttbl) = 1

(***************************************************************************)
(* C7 as claimed: the constructor of TodoList gives the title "untitled"   *)
(* when the title is absent, empty or longer than 128 characters, and the  *)
(* given title otherwise.                                                  *)
(***************************************************************************)
C7_InvalidTitleReplaced ==
    last.op = "TodoList"
    => lmem[last.obj].title =
          IF is_valid_title(last.arg) THEN last.arg ELSE Untitled

(***************************************************************************)
(* C7 as amended: the constructor of TodoList gives the title "untitled"   *)
(* when the title is absent or empty, and the given title otherwise, also  *)
(* when it is longer than 128 characters.                                  *)
(***************************************************************************)
C7_EmptyTitleReplaced ==
    last.op = "TodoList"
    => lmem[last.obj].title =
          IF last.arg = None \/ last.arg = <<>> THEN Untitled ELSE last.arg

\* a TodoList constructed with a title of more than 128 characters
C7_Witness ==
    /\ last.op = "TodoList"
    /\ last.arg # None
    /\ Len(last.arg) > TitleMax
    /\ lmem[last.obj].title = last.arg

(***************************************************************************)
(* C8: finished() leaves a Todo, open or finished, with is_finished true,  *)
(* finished_at set and status "finished", and stored; reopen() leaves it   *)
(* with is_finished false, finished_at NULL and status "open", and stored; *)
(* a new Todo has status "open"; both calls are enabled for every Todo.    *)
(***************************************************************************)
C8_TodoStateMachine ==
    /\ last.op = "finished"
       => LET t == tmem[last.obj]
          IN  /\ last.outcome = "ok"
              /\ t.is_finished = "True"
              /\ t.finished_at # NoneInt
              /\ status(t) = "finished"
              /\ t.state = "persistent"
              /\ TodoRow(t) \in ttbl
    /\ last.op = "reopen"
       => LET t == tmem[last.obj]
          IN  /\ last.outcome = "ok"
              /\ t.is_finished = "False"
              /\ t.finished_at = NoneInt
              /\ status(t) = "open"
              /\ t.state = "persistent"
              /\ TodoRow(t) \in ttbl
    /\ last.op = "Todo" => status(tmem[last.obj]) = "open"
    /\ \A o \in TodoObjs :
          tmem[o].state # "none"
          => /\ \A now \in Times : ENABLED Finished(o, now)
             /\ ENABLED Reopen(o)

\* finished() has been called on a finished Todo
C8_Witness ==
    /\ last.op = "finished"
    /\ last.arg = <<"finished">>
    /\ tmem[last.obj].is_finished = "True"

(***************************************************************************)
(* C10: delete() of a TodoList removes the row of that list and no row of  *)
(* todo: the stored Todos, with their description, is_finished and         *)
(* finished_at, are the same before and after, and the Todos of the list   *)
(* are left without a list.                                                *)
(***************************************************************************)
TodoFrame(rows) ==
    {[id |-> r.id, description |-> r.description,
      is_finished |-> r.is_finished, finished_at |-> r.finished_at] :
        r \in rows}

C10_DeleteListKeepsTodos ==
    [][\A o \in ListObjs :
          (/\ last'.op = "TodoList.delete"
           /\ last'.obj = o
           /\ last'.outcome = "ok")
          => /\ ltbl' = ltbl \ {ListRow(lmem[o])}
             /\ ListRow(lmem[o]) \in ltbl
             /\ TodoFrame(ttbl') = TodoFrame(ttbl)
             /\ Cardinality(ttbl') = Cardinality(ttbl)
             /\ \A r \in ttbl :
                   r.todolist_id = lmem[o].id
                   => \E q \in ttbl' :
                         /\ q.id = r.id
                         /\ ~\E l \in ltbl' : l.id = q.todolist_id]_vars

\* a list with a finished Todo has been deleted
C10_Witness ==
    /\ last.op = "TodoList.delete"
    /\ last.outcome = "ok"
    /\ \E r \in ttbl : r.todolist_id = NoneInt /\ r.is_finished = "True"

(***************************************************************************)
(* Two clients register a User each, every client in a session and a       *)
(* transaction of its own.  save() is db.session.add, then                 *)
(* db.session.commit(): the flush that INSERTs the row, and the COMMIT.    *)
(* The store checks the unique constraints at the INSERT; an INSERT whose  *)
(* key another open transaction has inserted waits for that transaction    *)
(* to end.  IntegrityError is caught and the transaction rolled back.      *)
(***************************************************************************)
Clients == {1, 2}

Idle == [pc |-> "idle", username |-> None, email |-> None, id |-> NoneInt,
         result |-> "none"]

RaceRow(c) == [id |-> race[c].id, username |-> race[c].username,
               email |-> race[c].email, password_hash |-> None]

\* the rows open transactions have inserted and not committed
Uncommitted == {RaceRow(c) : c \in {d \in Clients : race[d].pc = "flushed"}}

EarlierUser == [id |-> 1, username |-> NameB, email |-> MailB,
                password_hash |-> None]

\* u = User(username=..., email=...)
RaceNew(c, username, email) ==
    /\ race[c].pc = "idle"
    /\ race' = [race EXCEPT ![c].pc = "new", ![c].username = username,
                            ![c].email = email]
    /\ UNCHANGED <<umem, utbl, lmem, ltbl, tmem, ttbl, method, last>>

\* save(): db.session.add(self)
RaceAdd(c) ==
    /\ race[c].pc = "new"
    /\ race' = [race EXCEPT ![c].pc = "added"]
    /\ UNCHANGED <<umem, utbl, lmem, ltbl, tmem, ttbl, method, last>>

\* __commit(): db.session.commit() flushes the INSERT; IntegrityError is
\* raised into the except clause
RaceFlush(c) ==
    /\ race[c].pc = "added"
    /\ LET row == [RaceRow(c) EXCEPT !.id = NextId(utbl \cup Uncommitted)]
       IN  /\ ~UniqueViolation(Uncommitted, row)
           /\ race' = IF UniqueViolation(utbl, row)
                      THEN [race EXCEPT ![c].pc = "failed"]
                      ELSE [race EXCEPT ![c].pc = "flushed",
                                        ![c].id = row.id]
    /\ UNCHANGED <<umem, utbl, lmem, ltbl, tmem, ttbl, method, last>>

\* __commit(): db.session.commit() commits; save() returns self
RaceCommit(c) ==
    /\ race[c].pc = "flushed"
    /\ utbl' = utbl \cup {RaceRow(c)}
    /\ race' = [race EXCEPT ![c].pc = "returned", ![c].result = "persisted"]
    /\ UNCHANGED <<umem, lmem, ltbl, tmem, ttbl, method, last>>

\* __commit(): except IntegrityError: db.session.rollback(); save()
\* returns self
RaceRollback(c) ==
    /\ race[c].pc = "failed"
    /\ race' = [race EXCEPT ![c].pc = "returned",
                            ![c].result = "rolled back"]
    /\ UNCHANGED <<umem, utbl, lmem, ltbl, tmem, ttbl, method, last>>

InitRace ==
    /\ umem = [o \in UserObjs |-> NoUser]
    /\ utbl \in {{}, {EarlierUser}}
    /\ last = Call("start", 0, None, FALSE)
    /\ lmem = [o \in ListObjs |-> NoList]
    /\ ltbl = {}
    /\ tmem = [o \in TodoObjs |-> NoTodo]
    /\ ttbl = {}
    /\ method = "pbkdf2"
    /\ race = [c \in Clients |-> Idle]

NextRace ==
    \/ \E c \in Clients, un \in {NameA, NameB}, em \in {None, MailA, MailB} :
           RaceNew(c, un, em)
    \/ \E c \in Clients : RaceAdd(c)
    \/ \E c \in Clients : RaceFlush(c)
    \/ \E c \in Clients : RaceCommit(c)
    \/ \E c \in Clients : RaceRollback(c)

SpecRace == InitRace /\ [][NextRace]_vars

Persisted == {c \in Clients : race[c].id # NoneInt /\ RaceRow(c) \in utbl}

EarlierRows == utbl \ {RaceRow(c) : c \in Clients}

====
